---- MODULE Spec2Model ----
(***************************************************************************)
(* Readwise MCP remote server (src/src/index.js, current revision at lines *)
(* 635-1963): the OAuth-style credential broker (authCodes / validTokens,  *)
(* the 5-minute sweep, validateToken), the /authorize, /token and /mcp     *)
(* routes, the upstream clients apiV2 / apiV3 and the bulk tool handlers.  *)
(*                                                                         *)
(* Six specifications share the variables: Spec (the broker over time),    *)
(* SpecIdle (the broker left alone, with a fair clock and timer),          *)
(* SpecGateway (the life of each /mcp call), SpecExchange (POST /token     *)
(* requests pending together), SpecTools (tool handlers and upstream) and  *)
(* SpecTags (document_tags calls on one document).                         *)
(*                                                                         *)
(* Strings that the code parses (the Authorization header, codes, tokens)  *)
(* are sequences of one-character strings; a missing value (undefined) of  *)
(* such a string is the empty sequence, which every parser below treats    *)
(* exactly like undefined.  Times are milliseconds, as Date.now().         *)
(***************************************************************************)
EXTENDS Integers, Sequences, FiniteSets, TLC

\* ------------------------------------------------------------------ bounds
MaxUUID == 3          \* values crypto.randomUUID() can hand out in one run
MaxAdvances == 2      \* number of clock advances in one run
MaxCalls == 2         \* authenticated POST /mcp calls in one run
MaxItems == 3         \* items of one bulk tool call
MaxRequests == 3      \* POST /token requests that arrive in one run of SpecExchange
MaxExchangeUUID == 5  \* values crypto.randomUUID() can hand out in one run of SpecExchange
MaxExchangeCodes == 2 \* codes /authorize issues in one run of SpecExchange
MaxTagCalls == 2      \* document_tags calls on one document in one run of SpecTags
MaxSeriesDocs == 2    \* documents of a series in one get_document_series call

\* ------------------------------------------------- configuration, constants
OAUTH_CLIENT_ID == "configured-client"
OAUTH_CLIENT_SECRET == "configured-secret"

CodeTtl == 10 * 60 * 1000
TokenTtl == 24 * 60 * 60 * 1000
SweepInterval == 5 * 60 * 1000

Undefined == << >>
BearerPrefix == <<"B", "e", "a", "r", "e", "r", " ">>

VARIABLES
    now,            \* Date.now()
    nextSweep,      \* earliest time the setInterval callback runs next
    advances,       \* clock advances so far
    uuidCount,      \* values crypto.randomUUID() has returned so far
    authCodes,      \* Map code -> {clientId, createdAt}
    validTokens,    \* Map token -> {clientId, createdAt}
    goneCodes,      \* history: code -> "consumed" | "expired" once deleted
    goneTokens,     \* history: tokens deleted from validTokens
    last,           \* the last event: request, response and what it did
    calls,          \* authenticated POST /mcp calls, in order of arrival
    serverCount,    \* McpServer instances constructed by createMcpServer
    transportCount, \* StreamableHTTPServerTransport instances constructed
    closedServers,  \* McpServer instances on which close() was called
    closedTransports, \* transport instances on which close() was called
    tool,           \* one tool handler invocation and its upstream traffic
    inbox,          \* POST /token requests received, their handler not yet run
    answers,        \* POST /token requests handled, in the order handled
    docTags,        \* upstream: the tag list of one Reader document
    tagCalls,       \* document_tags calls on that document, in order of arrival
    tagLog          \* the upstream requests of those calls, in the order answered

brokerVars == <<now, nextSweep, advances, uuidCount, authCodes, validTokens,
                goneCodes, goneTokens>>
gatewayVars == <<calls, serverCount, transportCount, closedServers,
                 closedTransports>>
exchangeVars == <<inbox, answers>>
tagVars == <<docTags, tagCalls, tagLog>>
vars == <<now, nextSweep, advances, uuidCount, authCodes, validTokens,
          goneCodes, goneTokens, last, calls, serverCount, transportCount,
          closedServers, closedTransports, tool, inbox, answers, docTags,
          tagCalls, tagLog>>

\* ----------------------------------------------------------------- helpers
\* Map.delete: the map without the keys in gone
MapDelete(map, gone) == [k \in (DOMAIN map) \ gone |-> map[k]]

\* Map.set of a key not yet present or present
MapSet(map, key, value) ==
    [k \in (DOMAIN map) \cup {key} |-> IF k = key THEN value ELSE map[k]]

\* String.prototype.startsWith
StartsWith(s, prefix) ==
    /\ Len(s) >= Len(prefix)
    /\ SubSeq(s, 1, Len(prefix)) = prefix

\* String.prototype.slice(n)
Slice(s, n) == SubSeq(s, n + 1, Len(s))

\* the k-th value of crypto.randomUUID(): 122 random bits, so a value never
\* returned before
UUID(k) == <<ToString(k)>>

\* a generator that hands out one value over and over
randomUUIDRepeats(count) == UUID(1)

randomUUID(count) == UUID(count + 1)

UUIDs == {UUID(k) : k \in 1..MaxUUID}

\* createMcpServer: a new McpServer per invocation; instances are numbered
\* in order of construction
\* one module-level McpServer shared by every call (as in the SSE revision,
\* index.js line 502)
createMcpServerShared(count) == 1

createMcpServer(count) == count + 1

\* --------------------------------------------------------------- the broker
\* validateCredentials without the comparison of the secret
validateCredentialsIdOnly(clientId, clientSecret) == clientId = OAUTH_CLIENT_ID

\* validateCredentials that compares the secret only
validateCredentialsSecretOnly(clientId, clientSecret) ==
    clientSecret = OAUTH_CLIENT_SECRET

validateCredentials(clientId, clientSecret) ==
    clientId = OAUTH_CLIENT_ID /\ clientSecret = OAUTH_CLIENT_SECRET

\* the expiry test with >= in place of >
CodeExpiredAtTtl(data, t) == t - data.createdAt >= CodeTtl

CodeExpired(data, t) == t - data.createdAt > CodeTtl

\* the token expiry test with >= in place of >
TokenExpiredAtTtl(data, t) == t - data.createdAt >= TokenTtl

TokenExpired(data, t) == t - data.createdAt > TokenTtl

\* validateToken: the value it returns
validateToken(authHeader) ==
    IF ~StartsWith(authHeader, BearerPrefix) THEN FALSE
    ELSE LET token == Slice(authHeader, 7) IN
         IF token \notin DOMAIN validTokens THEN FALSE
         ELSE IF TokenExpired(validTokens[token], now) THEN FALSE
         ELSE TRUE

\* validateToken without validTokens.delete(token)
validateTokenDeletesNothing(authHeader) == {}

\* validateToken deleting the presented token whatever its age
validateTokenDeletesPresented(authHeader) ==
    IF ~StartsWith(authHeader, BearerPrefix) THEN {}
    ELSE LET token == Slice(authHeader, 7) IN
         IF token \notin DOMAIN validTokens THEN {} ELSE {token}

\* validateToken: the tokens it deletes (lazy expiry)
validateTokenDeletes(authHeader) ==
    IF ~StartsWith(authHeader, BearerPrefix) THEN {}
    ELSE LET token == Slice(authHeader, 7) IN
         IF token \notin DOMAIN validTokens THEN {}
         ELSE IF TokenExpired(validTokens[token], now) THEN {token}
         ELSE {}

\* the setInterval callback: the entries it deletes
SweepCodes(t) == {c \in DOMAIN authCodes : CodeExpired(authCodes[c], t)}

\* a sweep that empties the token store
SweepTokensAll(t) == DOMAIN validTokens

\* a sweep that leaves the token store alone
SweepTokensNone(t) == {}

SweepTokens(t) == {k \in DOMAIN validTokens : TokenExpired(validTokens[k], t)}

\* ------------------------------------------------------------------ inputs
\* request parameters: the configured value and a foreign one ("undefined"
\* stands for a parameter the request leaves out)
ClientIds == {OAUTH_CLIENT_ID, "other-client"}
Credentials == {<<OAUTH_CLIENT_ID, OAUTH_CLIENT_SECRET>>,
                <<OAUTH_CLIENT_ID, "wrong-secret">>,
                <<"other-client", OAUTH_CLIENT_SECRET>>}
GrantTypes == {"authorization_code", "refresh_token", "password", "undefined"}
RedirectUris == {"https://claude.ai/callback", "not a url"}

\* a bearer value or code that randomUUID never returned (a caller's guess)
Forged == UUID(0)

\* a caller presents a code that is or once was in the code store, or none
PresentedCodes == (DOMAIN authCodes) \cup (DOMAIN goneCodes) \cup {Undefined}

\* a caller presents a token that is or once was in the token store, or a
\* guess, behind a well-formed or a malformed scheme, or no header at all
PresentedTokens == (DOMAIN validTokens) \cup goneTokens \cup {Forged}

AuthHeaders ==
    {Undefined}
        \cup {BearerPrefix \o u : u \in PresentedTokens}
        \cup {<<"B", "e", "a", "r", "e", "r">> \o u : u \in DOMAIN validTokens}
        \cup {<<"b", "e", "a", "r", "e", "r", " ">> \o u : u \in DOMAIN validTokens}

\* new URL(redirect_uri) throws a TypeError unless the text parses as a URL
ValidUrl(u) == u = "https://claude.ai/callback"

NoTool == [pc |-> "none"]

\* what an event found when it began: both stores and the instances built
Snapshot ==
    [authCodes |-> authCodes, validTokens |-> validTokens,
     servers |-> serverCount, transports |-> transportCount, calls |-> Len(calls)]

Init ==
    /\ now = 0
    /\ nextSweep = SweepInterval
    /\ advances = 0
    /\ uuidCount = 0
    /\ authCodes = << >>
    /\ validTokens = << >>
    /\ goneCodes = << >>
    /\ goneTokens = {}
    /\ last = [op |-> "start"]
    /\ calls = << >>
    /\ serverCount = 0
    /\ transportCount = 0
    /\ closedServers = {}
    /\ closedTransports = {}
    /\ tool = NoTool
    /\ inbox = << >>
    /\ answers = << >>
    /\ docTags = << >>
    /\ tagCalls = << >>
    /\ tagLog = << >>

\* ----------------------------------------------------------------- actions
\* time passes.  A timer never runs early, so one advance may carry the
\* clock past nextSweep; the callback that is then due runs (after any
\* requests already queued) before the clock moves on again.  The sweeps an
\* advance of several intervals skips delete nothing that the late one does
\* not, since an entry once expired stays expired.
AdvanceTime(d) ==
    /\ advances < MaxAdvances
    /\ now < nextSweep
    /\ now' = now + d
    /\ advances' = advances + 1
    /\ last' = [op |-> "advance", before |-> Snapshot]
    /\ UNCHANGED <<nextSweep, uuidCount, authCodes, validTokens, goneCodes,
                   goneTokens, gatewayVars, tool, exchangeVars, tagVars>>

\* the setInterval callback
Sweep ==
    /\ now >= nextSweep
    /\ nextSweep' = now + SweepInterval
    /\ authCodes' = MapDelete(authCodes, SweepCodes(now))
    /\ validTokens' = MapDelete(validTokens, SweepTokens(now))
    /\ goneCodes' = [c \in (DOMAIN goneCodes) \cup SweepCodes(now) |->
                        IF c \in SweepCodes(now) THEN "expired" ELSE goneCodes[c]]
    /\ goneTokens' = goneTokens \cup SweepTokens(now)
    /\ last' = [op |-> "sweep", before |-> Snapshot]
    /\ UNCHANGED <<now, advances, uuidCount, gatewayVars, tool, exchangeVars, tagVars>>

\* the route without its client_id test
AuthorizeRejectsNone(client_id) == FALSE

\* GET /authorize: whether the route answers 401 and returns at once
AuthorizeRejects(client_id) == client_id # OAUTH_CLIENT_ID

\* the first firing of the timer later than the moment `due`, the timer
\* firing every SweepInterval from nextSweep on
FiringAfter(due) ==
    IF nextSweep > due THEN nextSweep
    ELSE nextSweep + ((due - nextSweep) \div SweepInterval + 1) * SweepInterval

\* for every stored entry, the first firing after its lifetime has run out
SweepTimes ==
    {FiringAfter(authCodes[c].createdAt + CodeTtl) : c \in DOMAIN authCodes}
    \cup {FiringAfter(validTokens[k].createdAt + TokenTtl) : k \in DOMAIN validTokens}

\* the firings among them whose sweep deletes something
RemovingSweeps == {t \in SweepTimes : SweepCodes(t) \cup SweepTokens(t) # {}}

Min(S) == CHOOSE m \in S : \A x \in S : m <= x

\* no request arrives and time passes up to the first firing of the timer
\* whose sweep deletes something; the firings before it run the callback and
\* delete nothing.  When no firing would delete anything the passing of time
\* changes nothing any more.
Idle ==
    /\ now < nextSweep
    /\ RemovingSweeps # {}
    /\ now' = Min(RemovingSweeps)
    /\ last' = [op |-> "idle", before |-> Snapshot]
    /\ UNCHANGED <<nextSweep, advances, uuidCount, authCodes, validTokens, goneCodes,
                   goneTokens, gatewayVars, tool, exchangeVars, tagVars>>

\* GET /authorize
Authorize(client_id, redirect_uri) ==
    IF AuthorizeRejects(client_id)
    THEN /\ last' = [op |-> "authorize", client_id |-> client_id,
                     redirect_uri |-> redirect_uri, status |-> 401,
                     error |-> "invalid_client", code |-> Undefined,
                     before |-> Snapshot]
         /\ UNCHANGED <<brokerVars, gatewayVars, tool, exchangeVars, tagVars>>
    ELSE /\ uuidCount < MaxUUID
         /\ LET code == randomUUID(uuidCount) IN
            /\ uuidCount' = uuidCount + 1
            /\ authCodes' = MapSet(authCodes, code,
                                   [clientId |-> client_id, createdAt |-> now])
            /\ last' = IF ValidUrl(redirect_uri)
                       THEN [op |-> "authorize", client_id |-> client_id,
                             redirect_uri |-> redirect_uri, status |-> 302,
                             error |-> "none", code |-> code, before |-> Snapshot]
                       ELSE [op |-> "authorize", client_id |-> client_id,
                             redirect_uri |-> redirect_uri, status |-> 500,
                             error |-> "TypeError", code |-> Undefined,
                             before |-> Snapshot]
         /\ UNCHANGED <<now, nextSweep, advances, validTokens, goneCodes,
                        goneTokens, gatewayVars, tool, exchangeVars, tagVars>>

\* the checks of POST /token with the code looked up before the credentials
TokenErrorCodeFirst(grant_type, code, client_id, client_secret) ==
    IF /\ grant_type = "authorization_code"
       /\ \/ code \notin DOMAIN authCodes
          \/ authCodes[code].clientId # client_id
    THEN "invalid_grant"
    ELSE IF ~validateCredentials(client_id, client_secret) THEN "invalid_client"
    ELSE "none"

\* POST /token: the error it answers with, "none" when it goes on to mint
TokenError(grant_type, code, client_id, client_secret) ==
    IF ~validateCredentials(client_id, client_secret) THEN "invalid_client"
    ELSE IF /\ grant_type = "authorization_code"
            /\ \/ code \notin DOMAIN authCodes
               \/ authCodes[code].clientId # client_id
         THEN "invalid_grant"
    ELSE "none"

\* res.status(...) of POST /token
TokenStatus(error) ==
    IF error = "invalid_client" THEN 401
    ELSE IF error = "none" THEN 200
    ELSE 400

\* the exchange without authCodes.delete(code)
ExchangeCodesKeepsCode(grant_type, code) == authCodes

\* an exchange that deletes the presented code whatever the grant type
ExchangeCodesAnyGrant(grant_type, code) == MapDelete(authCodes, {code})

\* POST /token past its checks: the code store it leaves
ExchangeCodes(grant_type, code) ==
    IF grant_type = "authorization_code"
    THEN MapDelete(authCodes, {code})
    ELSE authCodes

\* a refusal that deletes the presented code on its way out
RefusedCodesConsumed(error, code) == MapDelete(authCodes, {code})

\* POST /token refused: both returns come before authCodes.delete(code), so
\* the code store it leaves is the one it found
RefusedCodes(error, code) == authCodes

\* POST /token: the handler, from the destructuring of req.body to the
\* response; one synchronous function, so one step
TokenRoute(grant_type, code, client_id, client_secret) ==
    LET error == TokenError(grant_type, code, client_id, client_secret)
        request == [op |-> "token", grant_type |-> grant_type, code |-> code,
                    client_id |-> client_id, client_secret |-> client_secret,
                    status |-> TokenStatus(error), error |-> error,
                    before |-> Snapshot]
    IN
    IF error # "none"
    THEN /\ authCodes' = RefusedCodes(error, code)
         /\ goneCodes' = [c \in (DOMAIN goneCodes)
                                  \cup ((DOMAIN authCodes) \ DOMAIN authCodes') |->
                             IF c \in DOMAIN goneCodes THEN goneCodes[c]
                             ELSE "consumed"]
         /\ last' = request @@ [access_token |-> Undefined]
         /\ UNCHANGED <<now, nextSweep, advances, uuidCount, validTokens, goneTokens,
                        gatewayVars, tool, tagVars>>
    ELSE LET accessToken == randomUUID(uuidCount) IN
         /\ uuidCount' = uuidCount + 2
         /\ authCodes' = ExchangeCodes(grant_type, code)
         /\ goneCodes' = [c \in (DOMAIN goneCodes)
                                  \cup ((DOMAIN authCodes) \ DOMAIN authCodes') |->
                             IF c \in DOMAIN goneCodes THEN goneCodes[c]
                             ELSE "consumed"]
         /\ validTokens' = MapSet(validTokens, accessToken,
                                  [clientId |-> client_id, createdAt |-> now])
         /\ last' = request @@ [access_token |-> accessToken]
         /\ UNCHANGED <<now, nextSweep, advances, goneTokens, gatewayVars, tool, tagVars>>

\* whether a run that may draw at most budget values from randomUUID has the
\* two left that a request which passes the checks of POST /token draws
CanMint(budget, grant_type, code, client_id, client_secret) ==
    TokenError(grant_type, code, client_id, client_secret) = "none"
        => uuidCount + 2 <= budget

\* POST /token, received and handled with nothing in between
Token(grant_type, code, client_id, client_secret) ==
    /\ CanMint(MaxUUID, grant_type, code, client_id, client_secret)
    /\ TokenRoute(grant_type, code, client_id, client_secret)
    /\ UNCHANGED <<exchangeVars, tagVars>>

\* the route without its bearer check (as in the revision before OAuth,
\* src/unnamed/part_000 lines 201-218)
McpUnauthenticated(authHeader) == TRUE

\* POST /mcp: whether the route goes on past its bearer check
McpAuthenticated(authHeader) == validateToken(authHeader)

\* POST /mcp up to its first await: the bearer check, then (authenticated
\* only) createMcpServer, the transport, the close listener and the call of
\* server.connect
McpPost(authHeader) ==
    LET ok == McpAuthenticated(authHeader)
        deleted == validateTokenDeletes(authHeader)
    IN
    /\ validTokens' = MapDelete(validTokens, deleted)
    /\ goneTokens' = goneTokens \cup deleted
    /\ IF ~ok
       THEN /\ last' = [op |-> "mcp", header |-> authHeader, valid |-> ok,
                        status |-> 401, error |-> -32001, call |-> 0,
                        before |-> Snapshot]
            /\ UNCHANGED gatewayVars
       ELSE /\ Len(calls) < MaxCalls
            /\ serverCount' = serverCount + 1
            /\ transportCount' = transportCount + 1
            /\ calls' = Append(calls, [server |-> createMcpServer(serverCount),
                                       transport |-> transportCount + 1,
                                       pc |-> "connect",
                                       headersSent |-> FALSE,
                                       response |-> "none",
                                       written |-> 0,
                                       closed |-> FALSE])
            /\ UNCHANGED <<closedServers, closedTransports>>
            /\ last' = [op |-> "mcp", header |-> authHeader, valid |-> ok,
                        status |-> 0, error |-> 0, call |-> Len(calls) + 1,
                        before |-> Snapshot]
    /\ UNCHANGED <<now, nextSweep, advances, uuidCount, authCodes, goneCodes, tool, exchangeVars, tagVars>>

\* a request on /mcp with a method other than POST: the status of the answer.
\* app.get("/mcp") answers 405; no route is registered for DELETE, so the
\* request runs off the end of the router and Express answers 404
McpStatus(method) == IF method = "GET" THEN 405 ELSE 404

Methods == {"GET", "DELETE"}

\* GET /mcp, DELETE /mcp
McpOther(method) ==
    /\ last' = [op |-> "mcp method", method |-> method,
                status |-> McpStatus(method), before |-> Snapshot]
    /\ UNCHANGED <<brokerVars, gatewayVars, tool, exchangeVars, tagVars>>

\* ------------------------------------- POST /mcp after its first await
SetCall(i, rec) == [calls EXCEPT ![i] = rec]

\* the catch block without its test of res.headersSent
CaughtAlwaysWrites(call) ==
    [call EXCEPT !.pc = "done", !.headersSent = TRUE, !.response = "error500",
                 !.written = call.written + 1]

\* the catch block: a 500 JSON-RPC error -32603 unless headers were sent
Caught(call) ==
    IF call.headersSent
    THEN [call EXCEPT !.pc = "done"]
    ELSE [call EXCEPT !.pc = "done", !.headersSent = TRUE, !.response = "error500",
                      !.written = call.written + 1]

\* await server.connect(transport) resolves; transport.handleRequest is called
ConnectResolves(i) ==
    /\ calls[i].pc = "connect"
    /\ calls' = SetCall(i, [calls[i] EXCEPT !.pc = "handle"])
    /\ last' = [op |-> "connected", call |-> i]
    /\ UNCHANGED <<brokerVars, serverCount, transportCount, closedServers,
                   closedTransports, tool, exchangeVars, tagVars>>

\* await server.connect(transport) rejects
ConnectRejects(i) ==
    /\ calls[i].pc = "connect"
    /\ calls' = SetCall(i, Caught(calls[i]))
    /\ last' = [op |-> "connect threw", call |-> i, before |-> calls[i]]
    /\ UNCHANGED <<brokerVars, serverCount, transportCount, closedServers,
                   closedTransports, tool, exchangeVars, tagVars>>

\* inside transport.handleRequest: the transport writes the response head
HandleWritesHead(i) ==
    /\ calls[i].pc = "handle"
    /\ ~calls[i].headersSent
    /\ calls' = SetCall(i, [calls[i] EXCEPT !.headersSent = TRUE, !.response = "rpc",
                                            !.written = calls[i].written + 1])
    /\ last' = [op |-> "head written", call |-> i]
    /\ UNCHANGED <<brokerVars, serverCount, transportCount, closedServers,
                   closedTransports, tool, exchangeVars, tagVars>>

\* await transport.handleRequest(req, res, req.body) resolves
HandleResolves(i) ==
    /\ calls[i].pc = "handle"
    /\ calls[i].headersSent
    /\ calls' = SetCall(i, [calls[i] EXCEPT !.pc = "done"])
    /\ last' = [op |-> "handled", call |-> i]
    /\ UNCHANGED <<brokerVars, serverCount, transportCount, closedServers,
                   closedTransports, tool, exchangeVars, tagVars>>

\* await transport.handleRequest(req, res, req.body) rejects
HandleRejects(i) ==
    /\ calls[i].pc = "handle"
    /\ calls' = SetCall(i, Caught(calls[i]))
    /\ last' = [op |-> "handle threw", call |-> i, before |-> calls[i]]
    /\ UNCHANGED <<brokerVars, serverCount, transportCount, closedServers,
                   closedTransports, tool, exchangeVars, tagVars>>

\* the listener without its server.close()
CloseListenerTransportOnly(call) == [transports |-> {call.transport}, servers |-> {}]

\* the listener the route registers with res.on("close") before its first
\* await: the instances on which it calls close()
CloseListener(call) == [transports |-> {call.transport}, servers |-> {call.server}]

\* res emits "close" (the response ended or the client went away), at any
\* point of the call after the listener was registered: the listener runs
ResClose(i) ==
    /\ ~calls[i].closed
    /\ calls' = SetCall(i, [calls[i] EXCEPT !.closed = TRUE])
    /\ closedTransports' = closedTransports \cup CloseListener(calls[i]).transports
    /\ closedServers' = closedServers \cup CloseListener(calls[i]).servers
    /\ last' = [op |-> "close", call |-> i]
    /\ UNCHANGED <<brokerVars, serverCount, transportCount, tool, exchangeVars, tagVars>>

\* the routes and the calls in flight, within one sweep interval of the
\* start: no timer fires and no clock advance is observed
NextGateway ==
    \/ \E c \in ClientIds, r \in RedirectUris : Authorize(c, r)
    \/ \E g \in GrantTypes, c \in PresentedCodes, cred \in Credentials :
          Token(g, c, cred[1], cred[2])
    \/ \E h \in AuthHeaders : McpPost(h)
    \/ \E m \in Methods : McpOther(m)
    \/ \E i \in DOMAIN calls : ConnectResolves(i)
    \/ \E i \in DOMAIN calls : ConnectRejects(i)
    \/ \E i \in DOMAIN calls : HandleWritesHead(i)
    \/ \E i \in DOMAIN calls : HandleResolves(i)
    \/ \E i \in DOMAIN calls : HandleRejects(i)
    \/ \E i \in DOMAIN calls : ResClose(i)

SpecGateway == Init /\ [][NextGateway]_vars

\* --------------------------------------------------- the bulk tool handlers
\* The handlers run inside transport.handleRequest of an authenticated call.
\* tool is one invocation: its arguments, its position in the loop over the
\* items, the upstream requests it has sent and the result list it builds.
\* Item k is the k-th element of the documents / updates / document_ids
\* argument.
BulkTools == {"bulk_save_documents", "bulk_update_documents",
              "bulk_delete_documents", "bulk_tags"}

\* the upstream requests a handler makes for one item, in order
ItemRequests(name) ==
    IF name = "bulk_save_documents" THEN <<"POST /save/">>
    ELSE IF name = "bulk_update_documents" THEN <<"PATCH /update/">>
    ELSE IF name = "bulk_delete_documents" THEN <<"DELETE /delete/">>
    ELSE <<"GET /list/", "PATCH /update/">>

\* what await fetch(...) gives: a response with its status, its body text
\* and whether that text parses as JSON; status 0 stands for a fetch that
\* rejects (no response at all)
Responses == {[status |-> 0, text |-> "", json |-> FALSE],
              [status |-> 200, text |-> "{\"id\":1}", json |-> TRUE],
              [status |-> 200, text |-> "OK", json |-> FALSE],
              [status |-> 201, text |-> "{\"id\":2}", json |-> TRUE],
              [status |-> 204, text |-> "", json |-> FALSE],
              [status |-> 299, text |-> "[]", json |-> TRUE],
              [status |-> 300, text |-> "{}", json |-> TRUE],
              [status |-> 404, text |-> "Not found", json |-> FALSE],
              [status |-> 500, text |-> "", json |-> FALSE]}

\* the answers taken for the later requests of a handler that makes several:
\* a JSON body, a body that is not JSON, and a server error
LaterResponses == {res \in Responses : res.status \in {200, 500}}

\* Response.ok
Ok(res) == res.status >= 200 /\ res.status <= 299

\* what an async function gives its caller: a value, or a thrown Error with
\* its message and the parts of the response the message carries
Return(data) == [kind |-> "return", data |-> data]

Throw(message, carries) == [kind |-> "throw", message |-> message, carries |-> carries]

\* apiV2 after its fetch: it throws when fetch rejects, returns the
\* {success: true} marker for 204, throws the status and body text when
\* !res.ok, and returns res.json() otherwise (which throws a SyntaxError when
\* the body is not JSON)
apiV2(res) ==
    IF res.status = 0 THEN Throw("fetch failed", << >>)
    ELSE IF res.status = 204 THEN Return(<<"success", "true">>)
    ELSE IF ~Ok(res)
         THEN Throw("Readwise v2 API error", <<ToString(res.status), res.text>>)
    ELSE IF ~res.json THEN Throw("Unexpected token", << >>)
    ELSE Return(<<"json", res.text>>)

\* apiV3 without its test of res.ok
apiV3WithoutOkTest(res) ==
    IF res.status = 0 THEN Throw("fetch failed", << >>)
    ELSE IF res.status = 204 THEN Return(<<"success", "true">>)
    ELSE IF ~res.json THEN Throw("Unexpected token", << >>)
    ELSE Return(<<"json", res.text>>)

\* apiV3 after its fetch: as apiV2, with its own message
apiV3(res) ==
    IF res.status = 0 THEN Throw("fetch failed", << >>)
    ELSE IF res.status = 204 THEN Return(<<"success", "true">>)
    ELSE IF ~Ok(res)
         THEN Throw("Readwise v3 API error", <<ToString(res.status), res.text>>)
    ELSE IF ~res.json THEN Throw("Unexpected token", << >>)
    ELSE Return(<<"json", res.text>>)

\* the entry the handler pushes for an item whose request(s) all returned
Succeeded(item) == [item |-> item, success |-> TRUE, error |-> "none"]

\* the entry the catch block pushes: error.message
Failed(item, thrown) == [item |-> item, success |-> FALSE, error |-> thrown.message]

\* the requests of the remaining items all started at once, none awaited
\* before the next is made
SendRequestUnawaited(t, item, step) ==
    [t EXCEPT !.pc = "await", !.item = item, !.step = step,
              !.sent = t.sent \o [k \in 1..(t.n - item + 1) |->
                                    [item |-> item + k - 1,
                                     request |-> ItemRequests(t.name)[step]]],
              !.inflight = t.inflight + (t.n - item + 1)]

\* await apiV3(...): the request goes out and the handler is suspended
SendRequest(t, item, step) ==
    [t EXCEPT !.pc = "await", !.item = item, !.step = step,
              !.sent = Append(t.sent, [item |-> item, request |-> ItemRequests(t.name)[step]]),
              !.inflight = t.inflight + 1]

\* the loop with the try/catch around it instead of inside it: the first
\* failure ends the batch
AfterItemStopsOnFailure(t, entry) ==
    IF entry.success /\ t.item < t.n
    THEN SendRequest([t EXCEPT !.results = Append(t.results, entry)], t.item + 1, 1)
    ELSE [t EXCEPT !.results = Append(t.results, entry), !.pc = "returned"]

\* a loop that makes the request of a failed item once more before it
\* records the failure
AfterItemRetries(t, entry) ==
    IF ~entry.success /\ Cardinality({r \in DOMAIN t.sent : t.sent[r].item = t.item}) < 2
    THEN SendRequest(t, t.item, 1)
    ELSE IF t.item < t.n
    THEN SendRequest([t EXCEPT !.results = Append(t.results, entry)], t.item + 1, 1)
    ELSE [t EXCEPT !.results = Append(t.results, entry), !.pc = "returned"]

\* results.push(entry), then the for loop goes on to the next item or the
\* handler returns the list
AfterItem(t, entry) ==
    IF t.item < t.n
    THEN SendRequest([t EXCEPT !.results = Append(t.results, entry)], t.item + 1, 1)
    ELSE [t EXCEPT !.results = Append(t.results, entry), !.pc = "returned"]

\* the positions of tool at which no handler is running
Finished == {"none", "returned", "answered", "done"}

\* a handler that takes no notice of its confirm argument
ConfirmIgnored(confirm) == TRUE

\* if (!confirm) return ...: the handler goes on when this holds
Confirmed(confirm) == confirm

\* a bulk tool is invoked with n items
ToolCall(name, n, confirm) ==
    /\ tool.pc \in Finished
    /\ LET t == [pc |-> "returned", name |-> name, n |-> n, confirm |-> confirm,
                 item |-> 0, step |-> 0, results |-> << >>, sent |-> << >>,
                 inflight |-> 0, maxInflight |-> 0, failed |-> {},
                 text |-> IF Confirmed(confirm) THEN "results" ELSE "not confirmed"]
       IN tool' = IF Confirmed(confirm) /\ n > 0 THEN SendRequest(t, 1, 1) ELSE t
    /\ UNCHANGED <<brokerVars, gatewayVars, last, exchangeVars, tagVars>>

\* the upstream answers the request in flight and the handler resumes
UpstreamResponds(res) ==
    /\ tool.pc = "await"
    /\ LET r == apiV3(res)
           t == [tool EXCEPT !.inflight = tool.inflight - 1,
                             !.maxInflight = IF tool.inflight > tool.maxInflight
                                             THEN tool.inflight ELSE tool.maxInflight,
                             !.failed = IF r.kind = "throw"
                                        THEN tool.failed \cup {tool.item}
                                        ELSE tool.failed]
       IN tool' = IF r.kind = "throw" THEN AfterItem(t, Failed(t.item, r))
                  ELSE IF t.step < Len(ItemRequests(t.name))
                       THEN SendRequest(t, t.item, t.step + 1)
                  ELSE AfterItem(t, Succeeded(t.item))
    /\ UNCHANGED <<brokerVars, gatewayVars, last, exchangeVars, tagVars>>

\* a handler that makes one upstream request and answers with its result
\* (get_books with apiV2, get_tags with apiV3): the request is sent, the
\* upstream responds, and the handler has the client's outcome
Apis == {"apiV2", "apiV3"}

SingleRequestTool(api, res) ==
    /\ tool.pc \in Finished
    /\ tool' = [pc |-> "answered", api |-> api, res |-> res,
                out |-> IF api = "apiV2" THEN apiV2(res) ELSE apiV3(res)]
    /\ UNCHANGED <<brokerVars, gatewayVars, last, exchangeVars, tagVars>>

\* one await apiV2(...) / apiV3(...) of a handler: the request it sends and
\* what the call gives the handler
Made(api, request, res) ==
    [api |-> api, request |-> request,
     out |-> IF api = "apiV2" THEN apiV2(res) ELSE apiV3(res)]

\* a handler has run to its end: the api calls it made, in order, and what it
\* gives the dispatcher (a result, or the error thrown out of it)
Handled(name, made, out) == [pc |-> "done", name |-> name, made |-> made, out |-> out]

\* delete_highlight and delete_document: the confirm test, then one DELETE
\* whose failure is not caught
DeleteTools == {"delete_highlight", "delete_document"}

DeleteTool(name, confirm, res) ==
    /\ tool.pc \in Finished
    /\ LET call == IF name = "delete_highlight"
                   THEN Made("apiV2", "DELETE /highlights/", res)
                   ELSE Made("apiV3", "DELETE /delete/", res)
           h == IF ~Confirmed(confirm)
                THEN Handled(name, << >>, Return(<<"not confirmed">>))
                ELSE Handled(name, <<call>>,
                             IF call.out.kind = "throw" THEN call.out
                             ELSE Return(<<"deleted">>))
       IN tool' = [pc |-> h.pc, name |-> h.name, confirm |-> confirm,
                   made |-> h.made, out |-> h.out]
    /\ UNCHANGED <<brokerVars, gatewayVars, last, exchangeVars, tagVars>>

\* create_continuation: the original document is fetched (found tells whether
\* the answer holds a document); unless part_number is given the series is
\* searched inside a try whose catch sets detectedPart = 2; the new document
\* is saved
CreateContinuation(part_number, found, r1, r2, r3) ==
    /\ tool.pc \in Finished
    /\ r1.status = 204 => found
    /\ LET name == "create_continuation"
           doc == Made("apiV3", "GET /list/?id", r1)
           series == Made("apiV3", "GET /list/?category", r2)
           save == Made("apiV3", "POST /save/", r3)
           search == IF part_number THEN << >> ELSE <<series>>
           part == IF part_number THEN "given"
                   ELSE IF series.out.kind = "throw" THEN "2" ELSE "detected"
       IN tool' = IF doc.out.kind = "throw" THEN Handled(name, <<doc>>, doc.out)
                  ELSE IF ~found
                       THEN Handled(name, <<doc>>, Return(<<"not found">>))
                  ELSE IF save.out.kind = "throw"
                       THEN Handled(name, <<doc>> \o search \o <<save>>, save.out)
                  ELSE Handled(name, <<doc>> \o search \o <<save>>,
                               Return(<<"created", part>>))
    /\ UNCHANGED <<brokerVars, gatewayVars, last, exchangeVars, tagVars>>

\* get_document_series: the articles are listed (docs of them match the
\* identifier), and for each matching document its highlights are fetched
\* inside a try whose catch appends a line to the output
GetDocumentSeries(include_highlights, docs, r1, hs) ==
    /\ tool.pc \in Finished
    /\ r1.status = 204 => docs = 0
    /\ LET name == "get_document_series"
           list == Made("apiV3", "GET /list/?category", r1)
           highlights == IF include_highlights
                         THEN [k \in 1..docs |->
                                 Made("apiV2", "GET /highlights/?book_id=" \o ToString(k),
                                      hs[k])]
                         ELSE << >>
       IN tool' = IF list.out.kind = "throw" THEN Handled(name, <<list>>, list.out)
                  ELSE IF docs = 0
                       THEN Handled(name, <<list>>, Return(<<"no documents">>))
                  ELSE Handled(name, <<list>> \o highlights, Return(<<"series">>))
    /\ UNCHANGED <<brokerVars, gatewayVars, last, exchangeVars, tagVars>>

NextTools ==
    \/ \E name \in BulkTools, n \in 0..MaxItems, confirm \in BOOLEAN :
          ToolCall(name, n, confirm)
    \/ \E res \in Responses : UpstreamResponds(res)
    \/ \E api \in Apis, res \in Responses : SingleRequestTool(api, res)
    \/ \E name \in DeleteTools, confirm \in BOOLEAN, res \in Responses :
          DeleteTool(name, confirm, res)
    \/ \E part_number, found \in BOOLEAN, r1 \in Responses, r2, r3 \in LaterResponses :
          CreateContinuation(part_number, found, r1, r2, r3)
    \/ \E include_highlights \in BOOLEAN, docs \in 0..MaxSeriesDocs, r1 \in Responses :
          \E hs \in [1..docs -> LaterResponses] :
              GetDocumentSeries(include_highlights, docs, r1, hs)

SpecTools == Init /\ [][NextTools]_vars

\* ------------------------------------------------------------ document_tags
\* Calls of document_tags on one document, each inside its own POST /mcp
\* call, so several can be suspended at an await at once.  The add and remove
\* paths read the document (GET /list/), merge locally and write the merged
\* list back (PATCH /update/); an item of bulk_tags does what the add path
\* does.  Tag lists are sequences, as the arrays they are.
TagActions == {"get", "set", "add", "remove"}

TagArgs == {<< >>, <<"x">>, <<"y">>}

SeqToSet(q) == {q[k] : k \in DOMAIN q}

\* [...new Set(q)]: q without the later occurrences of a value
RECURSIVE Unique(_)
Unique(q) ==
    IF q = << >> THEN << >>
    ELSE LET front == Unique(SubSeq(q, 1, Len(q) - 1)) IN
         IF q[Len(q)] \in SeqToSet(front) THEN front ELSE Append(front, q[Len(q)])

\* currentTags after the local merge of the add or the remove path
MergeTags(action, currentTags, tags) ==
    IF action = "add" THEN Unique(currentTags \o tags)
    ELSE SelectSeq(currentTags, LAMBDA t : t \notin SeqToSet(tags))

\* a write that merges into the list the upstream holds when the write
\* arrives, not into the list the call read
TagsWrittenAtomic(call, upstream) ==
    IF call.action = "set" THEN call.tags
    ELSE MergeTags(call.action, upstream, call.tags)

\* body.tags of the PATCH a call sends: the tags argument for set, the
\* merge of what the call read for add and remove
TagsWritten(call, upstream) ==
    IF call.action = "set" THEN call.tags
    ELSE MergeTags(call.action, call.currentTags, call.tags)

SetTagCall(i, rec) == [tagCalls EXCEPT ![i] = rec]

\* document_tags is invoked: up to its first await, or to its return when it
\* makes no request
DocumentTags(action, tags) ==
    /\ Len(tagCalls) < MaxTagCalls
    /\ tagCalls' = Append(tagCalls,
          [action |-> action, tags |-> tags, currentTags |-> << >>,
           pc |-> IF action = "get" THEN "read"
                  ELSE IF tags = << >> THEN "returned"
                  ELSE IF action = "set" THEN "write"
                  ELSE "read",
           text |-> IF action # "get" /\ tags = << >>
                    THEN "Tags array required for this action."
                    ELSE "none"])
    /\ UNCHANGED <<brokerVars, gatewayVars, tool, last, exchangeVars, docTags, tagLog>>

\* the upstream answers the GET /list/ of call i with the document as it is
\* now, or the request fails and apiV3 throws out of the handler
ListResponds(i, ok) ==
    /\ tagCalls[i].pc = "read"
    /\ tagLog' = Append(tagLog, [call |-> i, op |-> "read", ok |-> ok])
    /\ tagCalls' = SetTagCall(i,
          IF ~ok THEN [tagCalls[i] EXCEPT !.pc = "threw"]
          ELSE IF tagCalls[i].action = "get"
               THEN [tagCalls[i] EXCEPT !.pc = "returned", !.currentTags = docTags,
                                        !.text = "tags"]
          ELSE [tagCalls[i] EXCEPT !.pc = "write", !.currentTags = docTags])
    /\ UNCHANGED <<brokerVars, gatewayVars, tool, last, exchangeVars, docTags>>

\* the upstream applies and answers the PATCH /update/ of call i, or the
\* request fails and apiV3 throws out of the handler
UpdateResponds(i, ok) ==
    /\ tagCalls[i].pc = "write"
    /\ tagLog' = Append(tagLog, [call |-> i, op |-> "write", ok |-> ok])
    /\ docTags' = IF ok THEN TagsWritten(tagCalls[i], docTags) ELSE docTags
    /\ tagCalls' = SetTagCall(i,
          IF ok THEN [tagCalls[i] EXCEPT !.pc = "returned", !.text = "data"]
          ELSE [tagCalls[i] EXCEPT !.pc = "threw"])
    /\ UNCHANGED <<brokerVars, gatewayVars, tool, last, exchangeVars>>

NextTags ==
    \/ \E action \in TagActions, tags \in TagArgs : DocumentTags(action, tags)
    \/ \E i \in DOMAIN tagCalls, ok \in BOOLEAN : ListResponds(i, ok)
    \/ \E i \in DOMAIN tagCalls, ok \in BOOLEAN : UpdateResponds(i, ok)

SpecTags == Init /\ [][NextTags]_vars

\* ------------------------------------------- POST /token under concurrency
\* express.json() and express.urlencoded() read the body of a request from
\* its socket before the route runs, so several requests can have arrived
\* while none of their handlers has run; the event loop then runs the
\* handlers one at a time, each to completion, in whatever order the bodies
\* complete, and a due timer callback can run between any two of them.
\* the sequence q without its i-th element
Remove(q, i) == SubSeq(q, 1, i - 1) \o SubSeq(q, i + 1, Len(q))

\* a POST /token authorization_code request arrives, presenting a code that
\* is in the code store at that moment (the requests of this specification
\* come from the configured client; Token covers the others)
TokenArrives(code, client_id, client_secret) ==
    /\ Len(inbox) + Len(answers) < MaxRequests
    /\ code \in DOMAIN authCodes
    /\ inbox' = Append(inbox, [arrival |-> Len(inbox) + Len(answers) + 1,
                               grant_type |-> "authorization_code", code |-> code,
                               client_id |-> client_id,
                               client_secret |-> client_secret])
    /\ UNCHANGED <<brokerVars, gatewayVars, tool, last, answers, tagVars>>

\* the handler of a request that has arrived runs
TokenHandled(i) ==
    LET r == inbox[i] IN
    /\ CanMint(MaxExchangeUUID, r.grant_type, r.code, r.client_id, r.client_secret)
    /\ TokenRoute(r.grant_type, r.code, r.client_id, r.client_secret)
    /\ inbox' = Remove(inbox, i)
    /\ answers' = Append(answers, [request |-> r,
                                   stored |-> r.code \in DOMAIN authCodes,
                                   status |-> last'.status,
                                   error |-> last'.error,
                                   access_token |-> last'.access_token])

NextExchange ==
    \/ \E d \in {1, CodeTtl} : AdvanceTime(d)
    \/ Sweep
    \/ /\ Cardinality((DOMAIN authCodes) \cup DOMAIN goneCodes) < MaxExchangeCodes
       /\ Authorize(OAUTH_CLIENT_ID, "https://claude.ai/callback")
    \/ \E c \in DOMAIN authCodes :
          TokenArrives(c, OAUTH_CLIENT_ID, OAUTH_CLIENT_SECRET)
    \/ \E i \in DOMAIN inbox : TokenHandled(i)

SpecExchange == Init /\ [][NextExchange]_vars

\* --------------------------------------------------- the broker left alone
\* A bounded number of requests of the configured client, at any moment, and
\* otherwise nothing but time and the timer.  Time always passes and a timer
\* that is due always fires: setInterval keeps the callback scheduled for as
\* long as the process runs, whatever the request traffic.
NextIdle ==
    \/ \E d \in {1, CodeTtl} : AdvanceTime(d)
    \/ Idle
    \/ Sweep
    \/ Authorize(OAUTH_CLIENT_ID, "https://claude.ai/callback")
    \/ \E g \in {"authorization_code", "refresh_token"}, c \in PresentedCodes :
          Token(g, c, OAUTH_CLIENT_ID, OAUTH_CLIENT_SECRET)

SpecIdle == Init /\ [][NextIdle]_vars /\ WF_vars(Idle) /\ WF_vars(Sweep)

\* the credential broker over time: the clock, the sweep timer and the three
\* routes that read or write the stores.  What a call does after POST /mcp
\* has authenticated it (NextGateway) and what a tool handler does
\* (NextTools) touches neither store.
Next ==
    \/ \E d \in {1, CodeTtl, TokenTtl} : AdvanceTime(d)
    \/ Sweep
    \/ \E c \in ClientIds, r \in RedirectUris : Authorize(c, r)
    \/ \E g \in GrantTypes, c \in PresentedCodes, cred \in Credentials :
          Token(g, c, cred[1], cred[2])
    \/ \E h \in AuthHeaders : McpPost(h)

Spec == Init /\ [][Next]_vars

\* ------------------------------------------------- claims about the broker
\* the last event was a POST /token authorization_code exchange by the
\* configured client
IsExchange ==
    /\ last.op = "token"
    /\ last.grant_type = "authorization_code"
    /\ last.client_id = OAUTH_CLIENT_ID
    /\ last.client_secret = OAUTH_CLIENT_SECRET

\* the exchange answered 200 with a token it added to the token store, and
\* the presented code is gone from the code store
ExchangeSucceeded ==
    /\ last.status = 200
    /\ last.code \notin DOMAIN authCodes
    /\ last.access_token \in (DOMAIN validTokens) \ DOMAIN last.before.validTokens

\* the exchange answered 400 invalid_grant and minted nothing
ExchangeRefused ==
    /\ last.status = 400
    /\ last.error = "invalid_grant"
    /\ last.access_token = Undefined
    /\ validTokens = last.before.validTokens

\* the presented code had left the code store by a successful exchange
\* before this request
ConsumedBefore ==
    /\ last.code \in DOMAIN goneCodes
    /\ goneCodes[last.code] = "consumed"
    /\ last.code \notin DOMAIN last.before.authCodes

C2_ExpiredCodeRefused ==
    (/\ IsExchange
     /\ now < nextSweep
     /\ last.code \in DOMAIN last.before.authCodes
     /\ now - last.before.authCodes[last.code].createdAt > CodeTtl)
        => ExchangeRefused

\* the bearer value of the last POST /mcp, when its header is well-formed
IsBearer(t) == last.op = "mcp" /\ last.header = BearerPrefix \o t

\* C3: validateToken, given "Bearer t" with t in the token store and created
\* more than 24 hours ago, returns false and deletes t in that call; a token
\* that has left the store is never in it again, and presenting it is
\* answered false.
C3_TokenExpiryLazyRemoval ==
    /\ \A t \in goneTokens : t \notin DOMAIN validTokens
    /\ \A t \in DOMAIN validTokens : ~TokenExpired(validTokens[t], now)
                                     \/ ~IsBearer(t)
    /\ \A t \in UUIDs :
          (/\ IsBearer(t)
           /\ \/ t \in goneTokens
              \/ /\ t \in DOMAIN last.before.validTokens
                 /\ TokenExpired(last.before.validTokens[t], now))
             => /\ last.valid = FALSE
                /\ t \notin DOMAIN validTokens
                /\ t \in goneTokens

\* an expired token the sweep had not removed was presented and deleted
C3_Witness ==
    \E t \in UUIDs :
        /\ IsBearer(t)
        /\ t \in DOMAIN last.before.validTokens
        /\ TokenExpired(last.before.validTokens[t], now)
        /\ last.valid = FALSE

\* the last event was an exchange presenting a stored, unexpired code with a
\* client_id other than the one recorded at issuance
IsMismatchedExchange ==
    /\ last.op = "token"
    /\ last.grant_type = "authorization_code"
    /\ last.code \in DOMAIN last.before.authCodes
    /\ ~CodeExpired(last.before.authCodes[last.code], now)
    /\ last.client_id # last.before.authCodes[last.code].clientId

\* C4 as stated: such an exchange fails with 400 invalid_grant.
C4_MismatchIsInvalidGrant ==
    IsMismatchedExchange => last.status = 400 /\ last.error = "invalid_grant"

\* C4, amended: such an exchange fails with 401 invalid_client (a client_id
\* other than the recorded one is not the configured one, and the credential
\* check comes first); the code stays in the store and nothing is minted.
C4_MismatchIsInvalidClient ==
    IsMismatchedExchange =>
        /\ last.status = 401
        /\ last.error = "invalid_client"
        /\ last.access_token = Undefined
        /\ authCodes = last.before.authCodes
        /\ validTokens = last.before.validTokens

C4_Witness == IsMismatchedExchange /\ last.client_secret = OAUTH_CLIENT_SECRET

\* the last POST /mcp carried no header, a header not starting with
\* "Bearer ", or a bearer value that was not in the token store
IsUnauthenticatedCall ==
    /\ last.op = "mcp"
    /\ \/ last.header = Undefined
       \/ ~StartsWith(last.header, BearerPrefix)
       \/ Slice(last.header, 7) \notin DOMAIN last.before.validTokens

\* C5: such a call is answered with the JSON-RPC error -32001 and builds no
\* McpServer and no transport, and dispatches nothing; servers and transports
\* exist only for calls that passed the bearer check.
C5_UnauthenticatedRejected ==
    /\ serverCount = Len(calls)
    /\ transportCount = Len(calls)
    /\ IsUnauthenticatedCall =>
          /\ last.status = 401
          /\ last.error = -32001
          /\ last.call = 0
          /\ serverCount = last.before.servers
          /\ transportCount = last.before.transports
          /\ Len(calls) = last.before.calls

\* a malformed header carrying a token that is in the store was rejected
C5_Witness ==
    /\ IsUnauthenticatedCall
    /\ last.header # Undefined
    /\ ~StartsWith(last.header, BearerPrefix)
    /\ validTokens # << >>
    /\ last.status = 401

\* the entries of a store that a sweep at time t must keep
KeptAt(store, ttl, t) ==
    [k \in {e \in DOMAIN store : t - store[e].createdAt <= ttl} |-> store[k]]

\* C6: a sweep leaves the code store equal to its prior entries of age at
\* most 10 minutes and the token store equal to its prior entries of age at
\* most 24 hours, each entry unmodified.
C6_SweepCorrect ==
    last.op = "sweep" =>
        /\ authCodes = KeptAt(last.before.authCodes, CodeTtl, now)
        /\ validTokens = KeptAt(last.before.validTokens, TokenTtl, now)

\* one sweep removed an expired code and kept an unexpired one
C6_Witness ==
    /\ last.op = "sweep"
    /\ authCodes # << >>
    /\ DOMAIN authCodes # DOMAIN last.before.authCodes

\* the last event was a POST /token by the configured client with a grant
\* type that is neither authorization_code nor refresh_token
IsOtherGrant ==
    /\ last.op = "token"
    /\ last.client_id = OAUTH_CLIENT_ID
    /\ last.client_secret = OAUTH_CLIENT_SECRET
    /\ last.grant_type \notin {"authorization_code", "refresh_token"}

\* C9 as stated: such a request fails with 400 unsupported_grant_type and
\* mints no access token.
C9_UnsupportedGrantType ==
    IsOtherGrant =>
        /\ last.status = 400
        /\ last.error = "unsupported_grant_type"
        /\ validTokens = last.before.validTokens

\* the last event was a POST /token whose credentials are not the
\* configured pair
IsBadClient ==
    /\ last.op = "token"
    /\ <<last.client_id, last.client_secret>> # <<OAUTH_CLIENT_ID, OAUTH_CLIENT_SECRET>>

\* C10: such a request fails with 401 invalid_client whatever its grant type
\* and code, and both stores are as they were.
C10_BadClient ==
    IsBadClient =>
        /\ last.status = 401
        /\ last.error = "invalid_client"
        /\ last.access_token = Undefined
        /\ authCodes = last.before.authCodes
        /\ validTokens = last.before.validTokens

\* a wrong secret with the right client_id and a stored code was rejected
C10_Witness ==
    /\ IsBadClient
    /\ last.client_id = OAUTH_CLIENT_ID
    /\ last.grant_type = "authorization_code"
    /\ last.code \in DOMAIN authCodes


\* ------------------------------------------------ claims about the gateway
\* C7: every authenticated call builds exactly one McpServer and one
\* transport; no two calls hold the same server or the same transport; and a
\* call's server and transport are closed by nothing but that call's own close
\* listener (what one call does to its registry never shows in another's).
C7_CallIsolation ==
    /\ serverCount = Len(calls)
    /\ transportCount = Len(calls)
    /\ \A i, j \in DOMAIN calls :
          i # j => /\ calls[i].server # calls[j].server
                   /\ calls[i].transport # calls[j].transport
    /\ \A i \in DOMAIN calls :
          /\ calls[i].server \in closedServers => calls[i].closed
          /\ calls[i].transport \in closedTransports => calls[i].closed

\* one call's connection closed while another call was still being handled
C7_Witness ==
    \E i, j \in DOMAIN calls :
        /\ i # j
        /\ calls[i].closed
        /\ calls[j].pc = "handle"
        /\ ~calls[j].closed
        /\ calls[j].server \notin closedServers

\* ------------------------------------------- claims about the bulk handlers
\* C8: a confirmed bulk call over n items returns n entries; entry k is for
\* item k, has success = false and an error message iff an upstream call for
\* item k failed, and success = true otherwise; and every item was attempted
\* whatever failed before it.
C8_BulkPartialFailure ==
    (tool.pc = "returned" /\ tool.confirm) =>
        /\ Len(tool.results) = tool.n
        /\ \A k \in 1..tool.n :
              /\ tool.results[k].item = k
              /\ tool.results[k].success = (k \notin tool.failed)
              /\ (k \in tool.failed) = (tool.results[k].error # "none")
              /\ \E r \in DOMAIN tool.sent : tool.sent[r].item = k

\* a call of three items whose second item failed and whose third succeeded
C8_Witness ==
    /\ tool.pc = "returned"
    /\ tool.confirm
    /\ tool.n = 3
    /\ tool.failed = {2}
    /\ tool.results[3].success

\* C11 as stated: a GET and a DELETE request on /mcp are both answered with
\* 405, build no McpServer and no transport, and leave both stores as they
\* were.
C11_MethodNotAllowed ==
    last.op = "mcp method" =>
        /\ last.status = 405
        /\ serverCount = last.before.servers
        /\ transportCount = last.before.transports
        /\ authCodes = last.before.authCodes
        /\ validTokens = last.before.validTokens

\* C12: once the connection of an authenticated call has closed, close() has
\* been called on that call's transport and on its server, wherever the call
\* was at that moment: awaiting connect, being handled, finished, or failed.
C12_SessionRelease ==
    \A i \in DOMAIN calls :
        calls[i].closed => /\ calls[i].transport \in closedTransports
                           /\ calls[i].server \in closedServers

\* one call closed after its dispatch threw and was answered 500, another
\* closed by a client that went away while the call was being handled
C12_Witness ==
    \E i, j \in DOMAIN calls :
        /\ calls[i].closed /\ calls[i].response = "error500"
        /\ calls[j].closed /\ calls[j].pc = "handle" /\ ~calls[j].headersSent
        /\ {calls[i].server, calls[j].server} \subseteq closedServers

\* the last event was server.connect or transport.handleRequest throwing
IsDispatchFailure == last.op \in {"connect threw", "handle threw"}

\* C13: when connect or handleRequest throws, the handler writes the 500
\* JSON-RPC error -32603 if no response head had been sent and writes nothing
\* if one had; the handler ends there (the exception goes no further); and no
\* call ever has more than one response written.
C13_DispatchFailure ==
    /\ \A i \in DOMAIN calls : calls[i].written <= 1
    /\ IsDispatchFailure =>
          LET was == last.before
              call == calls[last.call]
          IN /\ call.pc = "done"
             /\ IF was.headersSent
                THEN call = [was EXCEPT !.pc = "done"]
                ELSE /\ call.response = "error500"
                     /\ call.written = 1
                     /\ call.headersSent

\* handleRequest threw after the transport had written the response head
C13_Witness ==
    /\ last.op = "handle threw"
    /\ last.before.headersSent
    /\ calls[last.call].response = "rpc"

\* the last event was a GET /authorize with a client_id other than the
\* configured one
IsForeignAuthorize == last.op = "authorize" /\ last.client_id # OAUTH_CLIENT_ID

\* C14: such a request is answered 401 invalid_client, is not redirected and
\* hands out no code, and the code store is as it was; every stored code
\* records the configured client.
C14_AuthorizeWrongClient ==
    /\ \A c \in DOMAIN authCodes : authCodes[c].clientId = OAUTH_CLIENT_ID
    /\ IsForeignAuthorize =>
          /\ last.status = 401
          /\ last.error = "invalid_client"
          /\ last.code = Undefined
          /\ authCodes = last.before.authCodes
          /\ validTokens = last.before.validTokens

\* a foreign client was turned away while the store held a code
C14_Witness ==
    /\ IsForeignAuthorize
    /\ last.redirect_uri = "https://claude.ai/callback"
    /\ authCodes # << >>

\* ---------------------------------------- claims about the upstream clients
\* a handler has the outcome of apiV2 or apiV3 for a response the upstream
\* gave
HasOutcome == tool.pc = "answered" /\ tool.res.status # 0

\* the error apiV2 / apiV3 throws for a response that is not ok
ApiError(api, res) ==
    Throw(IF api = "apiV2" THEN "Readwise v2 API error" ELSE "Readwise v3 API error",
          <<ToString(res.status), res.text>>)

\* C15 as stated: for every response, the client returns the success marker
\* for 204, the parsed body for any other 2xx status, and throws the error
\* carrying status and body text otherwise.
C15_OutcomeByStatus ==
    HasOutcome =>
        tool.out = IF tool.res.status = 204 THEN Return(<<"success", "true">>)
                   ELSE IF Ok(tool.res) THEN Return(<<"json", tool.res.text>>)
                   ELSE ApiError(tool.api, tool.res)

\* C15, amended: the client returns the success marker (no upstream payload)
\* for 204; for any other 2xx status it returns the parsed body when the body
\* is JSON and throws the parser's error, which carries neither status nor
\* body, when it is not; for a status outside 200..299 it throws the error
\* carrying status and body text.  No status outside 200..299 gives a return.
C15_OutcomeByStatusAndBody ==
    HasOutcome =>
        /\ tool.out = IF tool.res.status = 204 THEN Return(<<"success", "true">>)
                      ELSE IF ~Ok(tool.res) THEN ApiError(tool.api, tool.res)
                      ELSE IF tool.res.json THEN Return(<<"json", tool.res.text>>)
                      ELSE Throw("Unexpected token", << >>)
        /\ tool.out.kind = "return" => Ok(tool.res)

\* apiV2 threw for a 404 whose body text its message carries
C15_Witness ==
    /\ HasOutcome
    /\ tool.api = "apiV2"
    /\ tool.res.status = 404
    /\ tool.out.kind = "throw"
    /\ tool.out.carries = <<"404", "Not found">>

\* -------------------------------------------- claims about the token window
\* the header of the last POST /mcp is "Bearer t" for a t that was in the
\* token store, aged less than / at most ttl
BearerAgedBelow(ttl) ==
    /\ StartsWith(last.header, BearerPrefix)
    /\ Slice(last.header, 7) \in DOMAIN last.before.validTokens
    /\ now - last.before.validTokens[Slice(last.header, 7)].createdAt < ttl

\* C16 as stated: validateToken returns true only for "Bearer t" with t in
\* the token store and now - createdAt strictly less than 24 hours.
C16_YoungerThanTtl ==
    (last.op = "mcp" /\ last.valid) => BearerAgedBelow(TokenTtl)

\* C16, amended: validateToken returns true exactly for "Bearer t" with t in
\* the token store and now - createdAt at most 24 hours: a token aged exactly
\* 24 hours is still accepted, one a millisecond older is not.
C16_NotOlderThanTtl ==
    last.op = "mcp" => (last.valid <=> BearerAgedBelow(TokenTtl + 1))

\* a token aged exactly 24 hours was accepted
C16_Witness ==
    /\ last.op = "mcp"
    /\ last.valid
    /\ BearerAgedBelow(TokenTtl + 1)
    /\ ~BearerAgedBelow(TokenTtl)

\* the tokens the last event found in the store and aged at most 24 hours
\* when it ran
LiveBefore ==
    IF last.op = "start" THEN {}
    ELSE {t \in DOMAIN last.before.validTokens :
             now - last.before.validTokens[t].createdAt <= TokenTtl}

\* C17: every event (clock advance, sweep, /authorize, /token, /mcp) leaves
\* the entry of each token that is not older than 24 hours in the store and
\* unmodified; a POST /mcp presenting such a token as "Bearer t" is accepted;
\* and a token leaves the store only in a sweep or in the validation of a
\* POST /mcp, and only when older than 24 hours.
C17_NoEarlyRevocation ==
    /\ \A t \in LiveBefore :
          /\ t \in DOMAIN validTokens
          /\ validTokens[t] = last.before.validTokens[t]
          /\ IsBearer(t) => last.valid
    /\ last.op # "start" =>
          \A t \in (DOMAIN last.before.validTokens) \ DOMAIN validTokens :
              /\ last.op \in {"sweep", "mcp"}
              /\ now - last.before.validTokens[t].createdAt > TokenTtl
              /\ last.op = "mcp" => IsBearer(t)

\* a sweep ran over a token aged exactly 24 hours and kept it
C17_Witness ==
    /\ last.op = "sweep"
    /\ \E t \in DOMAIN validTokens : now - validTokens[t].createdAt = TokenTtl

\* --------------------------------------- claims about the life of one code
\* the codes that were in the store when the last event began and are not
\* in it now
CodesRemoved ==
    IF last.op = "start" THEN {}
    ELSE (DOMAIN last.before.authCodes) \ DOMAIN authCodes

\* C18: a code leaves the store only by a successful exchange of that code
\* (consumed) or by a sweep that finds it older than 10 minutes (expired); a
\* code that has left the store is never in it again, and an exchange that
\* presents it never succeeds.
C18_CodeStateMachine ==
    /\ (DOMAIN goneCodes) \cap (DOMAIN authCodes) = {}
    /\ \A c \in CodesRemoved :
          \/ /\ last.op = "token"
             /\ last.status = 200
             /\ last.grant_type = "authorization_code"
             /\ last.code = c
             /\ goneCodes[c] = "consumed"
          \/ /\ last.op = "sweep"
             /\ now - last.before.authCodes[c].createdAt > CodeTtl
             /\ goneCodes[c] = "expired"
    /\ (/\ last.op = "token"
        /\ last.grant_type = "authorization_code"
        /\ last.code \notin DOMAIN last.before.authCodes)
          => /\ last.status # 200
             /\ last.access_token = Undefined
             /\ authCodes = last.before.authCodes

\* a code the sweep had expired was presented by the configured client and
\* refused, while a code issued later was in the store
C18_Witness ==
    /\ IsExchange
    /\ last.code \in DOMAIN goneCodes
    /\ goneCodes[last.code] = "expired"
    /\ last.status = 400
    /\ authCodes # << >>

\* ------------------------------------------- claims about the refresh grant
\* the last event was a POST /token with grant_type=refresh_token by the
\* configured client
IsRefresh ==
    /\ last.op = "token"
    /\ last.grant_type = "refresh_token"
    /\ last.client_id = OAUTH_CLIENT_ID
    /\ last.client_secret = OAUTH_CLIENT_SECRET

IssuedCodes == (DOMAIN authCodes) \cup DOMAIN goneCodes

\* the handled exchanges that presented code c, and those of them that
\* minted a token
ExchangesOf(c) == {k \in DOMAIN answers : answers[k].request.code = c}

MintedFor(c) == {k \in ExchangesOf(c) : answers[k].status = 200}

RefusedFor(c) ==
    {k \in ExchangesOf(c) : /\ answers[k].status = 400
                            /\ answers[k].error = "invalid_grant"
                            /\ answers[k].access_token = Undefined}

\* a request presenting c has arrived and its handler has not run
PendingFor(c) == \E i \in DOMAIN inbox : inbox[i].code = c

\* C19 as stated: of the exchanges of one code, all of which arrived while
\* the code was in the store, exactly one mints a token and every other is
\* refused with invalid_grant, once all of them have been handled.
C19_ExactlyOneMints ==
    \A c \in IssuedCodes :
        (ExchangesOf(c) # {} /\ ~PendingFor(c)) =>
            /\ Cardinality(MintedFor(c)) = 1
            /\ ExchangesOf(c) = MintedFor(c) \cup RefusedFor(c)

\* C19, amended: of the exchanges of one code, at most one mints a token and
\* every other is refused with invalid_grant; a handler mints exactly when
\* the code is in the store as it runs, so exactly one mints when the code is
\* still there as the first of them is handled (the sweep can remove an
\* expired code between arrival and handling, and then none mints).
C19_AtMostOneMints ==
    \A c \in IssuedCodes :
        /\ Cardinality(MintedFor(c)) <= 1
        /\ ExchangesOf(c) = MintedFor(c) \cup RefusedFor(c)
        /\ \A k \in ExchangesOf(c) : (k \in MintedFor(c)) = answers[k].stored
        /\ \A k \in ExchangesOf(c) :
              (answers[k].stored /\ \A j \in ExchangesOf(c) : k <= j)
                  => Cardinality(MintedFor(c)) = 1
        /\ \A k \in MintedFor(c) :
              /\ c \in DOMAIN goneCodes
              /\ goneCodes[c] = "consumed"
              /\ \A j \in DOMAIN answers :
                    (j # k /\ answers[j].status = 200)
                        => answers[j].access_token # answers[k].access_token

\* three exchanges of one code were pending together; the one that arrived
\* last was handled first and minted, the two others were refused
C19_Witness ==
    \E c \in IssuedCodes :
        /\ Cardinality(ExchangesOf(c)) = 3
        /\ answers[1].request.arrival = 3
        /\ MintedFor(c) = {1}
        /\ RefusedFor(c) = {2, 3}

\* ------------------------------------------- claims about the tag updates
\* the position in tagLog of the answered read / write of call i (0: none)
Answered(i, op) ==
    {k \in DOMAIN tagLog : tagLog[k].call = i /\ tagLog[k].op = op /\ tagLog[k].ok}

\* calls i and j both took the add or remove path and interleaved
\* read-read-write-write, i writing first and j writing last of all
ReadReadWriteWrite(i, j) ==
    /\ i # j
    /\ tagCalls[i].action \in {"add", "remove"}
    /\ tagCalls[j].action \in {"add", "remove"}
    /\ \E ri \in Answered(i, "read"), rj \in Answered(j, "read"),
          wi \in Answered(i, "write"), wj \in Answered(j, "write") :
          /\ ri < wi /\ rj < wi /\ wi < wj
          /\ \A k \in DOMAIN tagLog : (tagLog[k].op = "write" /\ tagLog[k].ok) => k <= wj

\* C21: when two add / remove calls on one document interleave
\* read-read-write-write, the document ends with the last writer's list (the
\* merge of what that call had read), and a change of the first writer that
\* the last writer neither read nor makes itself is not in it.
C21_LastWriterWins ==
    \A i, j \in DOMAIN tagCalls :
        ReadReadWriteWrite(i, j) =>
            LET mine == SeqToSet(tagCalls[j].tags)
                seen == SeqToSet(tagCalls[j].currentTags)
                final == SeqToSet(docTags)
            IN /\ final = IF tagCalls[j].action = "add" THEN seen \cup mine
                          ELSE seen \ mine
               /\ \A t \in SeqToSet(tagCalls[i].tags) :
                     IF tagCalls[i].action = "add"
                     THEN (t \notin seen /\ ~(tagCalls[j].action = "add" /\ t \in mine))
                              => t \notin final
                     ELSE (t \in seen /\ ~(tagCalls[j].action = "remove" /\ t \in mine))
                              => t \in final

\* one call added x, another added y, read-read-write-write: x is lost
C21_Witness ==
    /\ Len(tagCalls) = 2
    /\ ReadReadWriteWrite(1, 2)
    /\ tagCalls[1].action = "add" /\ tagCalls[1].tags = <<"x">>
    /\ tagCalls[2].action = "add" /\ tagCalls[2].tags = <<"y">>
    /\ docTags = <<"y">>

\* ------------------------------------------ claims about memory boundedness
\* C22: with the timer firing whatever the traffic, every code and every
\* token that is in its store is eventually out of it, though no further
\* request arrives; and right after a sweep no code older than 10 minutes and
\* no token older than 24 hours is left.
C22_EventuallyRemoved ==
    /\ \A u \in UUIDs : (u \in DOMAIN authCodes) ~> (u \notin DOMAIN authCodes)
    /\ \A u \in UUIDs : (u \in DOMAIN validTokens) ~> (u \notin DOMAIN validTokens)
    /\ [](last.op = "sweep" =>
            /\ \A c \in DOMAIN authCodes : now - authCodes[c].createdAt <= CodeTtl
            /\ \A k \in DOMAIN validTokens : now - validTokens[k].createdAt <= TokenTtl)

\* left alone, the process has swept out a code nobody exchanged and a token,
\* and both stores are empty
C22_Witness ==
    /\ last.op = "sweep"
    /\ authCodes = << >>
    /\ validTokens = << >>
    /\ goneTokens # {}
    /\ \E c \in DOMAIN goneCodes : goneCodes[c] = "expired"

\* ------------------------------------------------ claims about bulk ordering
\* the last event belongs to a bulk call (confirmed or not)
IsBulkCall == tool.pc \in {"await", "returned"}

\* C23: within one confirmed bulk call the requests go out in input order,
\* a request for item k+1 only after the entry of item k is in the result
\* list (its request completed or failed), never more than one request of
\* the call is in flight, and entry k of the result list is for item k.
C23_SequentialBulk ==
    (IsBulkCall /\ tool.confirm) =>
        /\ tool.inflight <= 1
        /\ tool.maxInflight <= 1
        /\ tool.inflight = (IF tool.pc = "await" THEN 1 ELSE 0)
        /\ \A r, q \in DOMAIN tool.sent :
              r < q => tool.sent[r].item <= tool.sent[q].item
        /\ \A r \in DOMAIN tool.sent : tool.sent[r].item <= Len(tool.results) + 1
        /\ tool.pc = "await" => tool.item = Len(tool.results) + 1
        /\ \A k \in DOMAIN tool.results : tool.results[k].item = k

\* a confirmed bulk_tags call over three items has returned after six
\* requests, one at a time
C23_Witness ==
    /\ tool.pc = "returned"
    /\ tool.confirm
    /\ tool.name = "bulk_tags"
    /\ tool.n = 3
    /\ Len(tool.sent) = 6
    /\ tool.maxInflight = 1
    /\ Len(tool.results) = 3

\* ------------------------------------------ claims about upstream failures
\* a handler other than a bulk one has run to its end
IsPlainHandler == tool.pc \in {"answered", "done"}

\* the api calls the handler made
CallsMade == IF tool.pc = "done" THEN tool.made ELSE <<[out |-> tool.out]>>

\* C24 as stated: outside the bulk handlers, whenever an apiV2 / apiV3 call
\* made by a handler fails, the handler ends with a thrown error and not
\* with a normal result.
C24_FailuresPropagate ==
    IsPlainHandler =>
        ((\E k \in DOMAIN CallsMade : CallsMade[k].out.kind = "throw")
            => tool.out.kind = "throw")

\* ------------------------------------------------- claims about fire-once
\* the requests a bulk call has sent for item k
SentFor(k) == {r \in DOMAIN tool.sent : tool.sent[r].item = k}

\* C25: no handler sends the same upstream request twice: a bulk call sends
\* each request of each item once, and exactly one request for an item
\* whose only request failed; a handler that throws made the failing call
\* last and made no call twice.
C25_FireOnce ==
    /\ (IsBulkCall /\ tool.confirm) =>
          /\ \A r, q \in DOMAIN tool.sent : r # q => tool.sent[r] # tool.sent[q]
          /\ \A k \in 1..tool.n :
                Cardinality(SentFor(k)) <= Len(ItemRequests(tool.name))
          /\ \A k \in tool.failed :
                Len(ItemRequests(tool.name)) = 1 => Cardinality(SentFor(k)) = 1
    /\ tool.pc = "done" =>
          /\ \A r, q \in DOMAIN tool.made :
                r # q => tool.made[r].request # tool.made[q].request
          /\ tool.out.kind = "throw" =>
                /\ tool.made # << >>
                /\ tool.made[Len(tool.made)].out = tool.out

\* a bulk_save_documents call of three items whose first and last request
\* failed has returned after three requests
C25_Witness ==
    /\ tool.pc = "returned"
    /\ tool.confirm
    /\ tool.name = "bulk_save_documents"
    /\ tool.n = 3
    /\ tool.failed = {1, 3}
    /\ Len(tool.sent) = 3

\* ------------------------------------------- claims about failed exchanges
\* the last event was a POST /token answered with an error
IsFailedExchange ==
    /\ last.op = "token"
    /\ last.error \in {"invalid_client", "invalid_grant", "unsupported_grant_type"}

\* C26: a POST /token that ends in one of the three errors leaves the code
\* store and the token store as it found them and hands out no token; so
\* does every request with wrong credentials or with a client_id other than
\* the one the presented code was issued to.
C26_FailedExchangeFrame ==
    (IsFailedExchange \/ IsBadClient \/ IsMismatchedExchange) =>
        /\ authCodes = last.before.authCodes
        /\ validTokens = last.before.validTokens
        /\ last.access_token = Undefined
        /\ last.status \in {400, 401}

\* a request with wrong credentials presented a stored code while a token
\* was stored: the code is still stored
C26_Witness ==
    /\ IsFailedExchange
    /\ last.error = "invalid_client"
    /\ last.code \in DOMAIN authCodes
    /\ validTokens # << >>

\* ------------------------------------------------ claims about /authorize
\* C27 as stated: GET /authorize adds a code to the code store only when the
\* same request is answered with the redirect that carries the code; a
\* request answered otherwise (wrong client_id, or a redirect_uri from which
\* no URL can be built) leaves the code store as it was.
C27_NoOrphanCodes ==
    last.op = "authorize" =>
        /\ authCodes # last.before.authCodes =>
              /\ last.status = 302
              /\ last.code \in DOMAIN authCodes
              /\ last.code \notin DOMAIN last.before.authCodes
        /\ last.status # 302 => authCodes = last.before.authCodes

\* ---------------------------------------------- claims about provenance
\* C28: every entry of the code store and of the token store has the
\* configured client id; a token enters the token store only by a POST
\* /token that presented the configured client_id and client_secret and was
\* answered with that token; and POST /mcp accepts a bearer value only if it
\* is a token that was in the store before the call.
C28_StoreProvenance ==
    /\ \A c \in DOMAIN authCodes : authCodes[c].clientId = OAUTH_CLIENT_ID
    /\ \A t \in DOMAIN validTokens : validTokens[t].clientId = OAUTH_CLIENT_ID
    /\ last.op # "start" =>
          \A t \in (DOMAIN validTokens) \ DOMAIN last.before.validTokens :
              /\ last.op = "token"
              /\ last.client_id = OAUTH_CLIENT_ID
              /\ last.client_secret = OAUTH_CLIENT_SECRET
              /\ last.access_token = t
    /\ (last.op = "mcp" /\ last.valid) =>
          \E t \in DOMAIN last.before.validTokens :
              /\ last.header = BearerPrefix \o t
              /\ t \in DOMAIN validTokens

\* POST /mcp has accepted a token while a code of the configured client was
\* stored
C28_Witness ==
    /\ last.op = "mcp"
    /\ last.valid
    /\ authCodes # << >>
    /\ validTokens # << >>

\* ------------------------------------------- claims about the confirm guard
\* the last handler to end was delete_highlight or delete_document
IsDeleteCall == tool.pc = "done" /\ tool.name \in DeleteTools

\* C29: delete_highlight, delete_document and the four bulk tools, called
\* with confirm = false, send no upstream request and return the "not
\* confirmed" text; a call of these tools that has sent a request was made
\* with confirm = true.
C29_ConfirmationGuard ==
    /\ IsBulkCall =>
          /\ ~tool.confirm =>
                /\ tool.sent = << >>
                /\ tool.pc = "returned"
                /\ tool.text = "not confirmed"
                /\ tool.results = << >>
          /\ tool.sent # << >> => tool.confirm
    /\ IsDeleteCall =>
          /\ ~tool.confirm =>
                /\ tool.made = << >>
                /\ tool.out = Return(<<"not confirmed">>)
          /\ tool.made # << >> => tool.confirm

\* delete_document called with confirm = false has returned without a request
C29_Witness ==
    /\ IsDeleteCall
    /\ tool.name = "delete_document"
    /\ ~tool.confirm
    /\ tool.made = << >>
    /\ tool.out.kind = "return"

\* --------------------------------------------- claims about validateToken
\* the tokens the last POST /mcp (the one caller of validateToken) removed
RemovedByValidation == (DOMAIN last.before.validTokens) \ DOMAIN validTokens

\* the header of the last POST /mcp is missing, malformed or names no token
\* of the store
UnknownBearer ==
    \/ ~StartsWith(last.header, BearerPrefix)
    \/ Slice(last.header, 7) \notin DOMAIN last.before.validTokens

\* C30: a call of validateToken adds no entry to either store, leaves the
\* code store alone and removes at most one token, the presented one and
\* only when it is older than 24 hours; a call that returns true, or whose
\* bearer value is missing, malformed or unknown, leaves both stores as they
\* were.
C30_ValidationFrame ==
    last.op = "mcp" =>
        /\ authCodes = last.before.authCodes
        /\ \A t \in DOMAIN validTokens :
              /\ t \in DOMAIN last.before.validTokens
              /\ validTokens[t] = last.before.validTokens[t]
        /\ Cardinality(RemovedByValidation) <= 1
        /\ \A t \in RemovedByValidation :
              /\ last.header = BearerPrefix \o t
              /\ now - last.before.validTokens[t].createdAt > TokenTtl
              /\ ~last.valid
        /\ (last.valid \/ UnknownBearer) => validTokens = last.before.validTokens

\* a call removed the expired token it was given and left a code and
\* nothing else changed
C30_Witness ==
    /\ last.op = "mcp"
    /\ RemovedByValidation # {}
    /\ authCodes # << >>
    /\ authCodes = last.before.authCodes

====
